---- MODULE Spec2Model ----
(***************************************************************************)
(* Model of deepchecks' WeakSegmentsPerformance check                      *)
(* (deepchecks/tabular/checks/model_evaluation/weak_segments_performance). *)
(*                                                                         *)
(* Numbers.  Scores, encoded feature values and split thresholds are       *)
(* floats in the code; here they are small integers.  NaN, +inf and -inf   *)
(* are the three sentinels below and every comparison goes through Less,   *)
(* which is false as soon as one side is NaN (IEEE 754).                   *)
(***************************************************************************)
EXTENDS Integers, Sequences, FiniteSets, TLC

VARIABLES
    pc,             \* position inside run_logic
    err,            \* exception that left run_logic, "none" while running
    n_samples,      \* rows of the sampled dataset
    n_features,     \* len(dataset.features) after dataset.select
    n_top_features, \* self.n_top_features
    encoded,        \* _target_encode_categorical_features_fill_na was called
    scorer,         \* context.get_single_scorer was called
    feature_rank,   \* feature_rank handed to the search
    i, j,           \* loop variables of _weak_segments_search
    weak_segments,  \* the DataFrame of records, one row per successful pair
    evals,          \* history: one entry per call of _find_weak_segment
    result,         \* value of the CheckResult, <<>> while there is none
    condition,      \* outcome of the added condition, <<>> before it ran
    leaf_tree,      \* get_worst_leaf_filter alone: the tree it is given
    leaf_names,     \* ... features_for_segment
    leaf_sc,        \* ... the value of the metric per leaf
    leaf_worst,     \* ... and what it returned, <<>> before the call
    df,             \* encoder alone: dataset.features_columns, column -> rows
    cat_features,   \* ... dataset.cat_features
    threshold,      \* ... self.categorical_aggregation_threshold, <<num, den>>
    target_enc,     \* ... the value TargetEncoder gives each category
    df_aggregated,  \* ... the frame after the rare categories were merged
    df_encoded,     \* ... the encoded frame, <<>> before the call
    encoder_mapping, \* ... self.encoder_mapping
    formatted,      \* _format_partition_vec_for_display alone: its call and result
    outcome,        \* pair search in any order: what _find_weak_segment returned per pair
    pending,        \* ... the pairs not evaluated yet
    any_pc,         \* ... "eval", then "sorted"
    rec_request,    \* recommender Context: the call of get_single_scorer / get_scorers
    rec_result,     \* ... what the call returned or raised
    n_to_show,      \* _create_heatmap_display: self.n_to_show
    idx,            \* ... idx
    display_tabs,   \* ... the keys of display_tabs, in the order they were written
    grid,           \* ... the grid of the panel built last: scores, counts
    partitions,     \* ... per record walked, the boundaries found on each axis
    heat_pc         \* ... "loop", then "done"

runVars  == <<pc, err, n_features, n_top_features, encoded, scorer,
              feature_rank, i, j, weak_segments, evals, result, condition>>
leafVars == <<leaf_tree, leaf_names, leaf_sc, leaf_worst>>
encVars  == <<df, cat_features, threshold, target_enc, df_aggregated, df_encoded,
              encoder_mapping>>
fmtVars  == <<formatted>>
anyVars  == <<outcome, pending, any_pc>>
recVars  == <<rec_request, rec_result>>
heatVars == <<n_to_show, idx, display_tabs, grid, partitions, heat_pc>>
extVars  == <<fmtVars, anyVars, recVars, heatVars>>
vars == <<runVars, n_samples, leafVars, encVars, extVars>>

\* ------------------------------------------------------------------ bounds
MaxSamples  == 3
MaxFeatures == 3
MaxRows     == 4

\* ---------------------------------------------------------------- numbers
NaN  == 0 - 1
INF  == 9999
NINF == 0 - 9999

\* a < b and a <= b on floats: false when either side is not a number
Less(a, b) == a # NaN /\ b # NaN /\ a < b
Leq(a, b) == a # NaN /\ b # NaN /\ a <= b

ScoreVals  == {50, 100}   \* what a scorer returns on a non-empty slice, in 1/100
Thresholds == {1}         \* split points: midway between two data values
TopChoices == 0..3        \* values of the n_top_features parameter (default 5)

\* ---------------------------------------------------------------- dataset
FeatureNames == <<"f1", "f2", "f3", "f4">>

\* encoded_dataset.data: a dataset of n rows is the first n rows of this
\* table; every value is one of the two encoded levels 0 and 2
Data == << [f1 |-> 0, f2 |-> 0, f3 |-> 2, f4 |-> 0],
           [f1 |-> 2, f2 |-> 0, f3 |-> 0, f4 |-> 2],
           [f1 |-> 0, f2 |-> 2, f3 |-> 2, f4 |-> 2],
           [f1 |-> 2, f2 |-> 2, f3 |-> 0, f4 |-> 0],
           [f1 |-> 2, f2 |-> 0, f3 |-> 2, f4 |-> 0] >>

\* ---------------------------------------------------------------- filters
EmptyFilter == [f \in {} |-> <<NINF, INF>>]

\* DeepchecksFilter.add_filter: narrow the range of one feature
AddFilter(flt, name, thr, greater) ==
    LET old == IF name \in DOMAIN flt THEN flt[name] ELSE <<NINF, INF>>
        new == IF greater
                 THEN <<IF thr > old[1] THEN thr ELSE old[1], old[2]>>
                 ELSE <<old[1], IF thr < old[2] THEN thr ELSE old[2]>>
    IN  [f \in DOMAIN flt \cup {name} |-> IF f = name THEN new ELSE flt[f]]

\* DeepchecksFilter.filter: rows with lower < value <= upper on every feature
FilterRows(flt, n) ==
    {r \in 1..n : \A f \in DOMAIN flt :
                     Data[r][f] > flt[f][1] /\ Data[r][f] <= flt[f][2]}

\* ------------------------------------------------------------------ trees
\* a fitted tree: <<>> is a leaf, <<k, thr, left, right>> splits on
\* features_for_segment[k] at thr (value <= thr goes left)
Leaf == <<>>
Node(k, thr, l, r) == <<k, thr, l, r>>
Stumps == {Leaf} \cup {Node(k, t, Leaf, Leaf) : k \in 1..2, t \in Thresholds}
Trees  == {Leaf} \cup {Node(k, t, l, r) : k \in 1..2, t \in Thresholds,
                                          l \in Stumps, r \in Stumps}

RECURSIVE ConvertLeaves(_, _, _)
\* convert_tree_leaves_into_filters: the leaves left to right, each with the
\* conjunction of the splits on its path
ConvertLeaves(tree, names, flt) ==
    IF tree = Leaf THEN <<flt>>
    ELSE ConvertLeaves(tree[3], names, AddFilter(flt, names[tree[1]], tree[2], FALSE))
         \o ConvertLeaves(tree[4], names, AddFilter(flt, names[tree[1]], tree[2], TRUE))

\* scorer.run_on_data_and_label on the slice of a leaf: not a number on an
\* empty slice, else the value sc the metric gives
RunOnDataAndLabel(flt, n, sc) == IF FilterRows(flt, n) = {} THEN NaN ELSE sc

\* ------------------------------------------------- _find_weak_segment
RECURSIVE WorstFrom(_, _, _, _, _, _)
\* the loop of get_worst_leaf_filter from leaf k on; min_leaf = 0 is None
WorstFrom(leaves, sc, n, k, min_score, min_leaf) ==
    IF k > Len(leaves) THEN <<min_score, min_leaf>>
    ELSE LET leaf_score == RunOnDataAndLabel(leaves[k], n, sc[k])
         IN  IF Less(leaf_score, min_score)
               THEN WorstFrom(leaves, sc, n, k + 1, leaf_score, k)
               ELSE WorstFrom(leaves, sc, n, k + 1, min_score, min_leaf)

RECURSIVE WorstFromLastOnTies(_, _, _, _, _, _)
WorstFromLastOnTies(leaves, sc, n, k, min_score, min_leaf) ==
    IF k > Len(leaves) THEN <<min_score, min_leaf>>
    ELSE LET leaf_score == RunOnDataAndLabel(leaves[k], n, sc[k])
         IN  IF Leq(leaf_score, min_score)
               THEN WorstFromLastOnTies(leaves, sc, n, k + 1, leaf_score, k)
               ELSE WorstFromLastOnTies(leaves, sc, n, k + 1, min_score, min_leaf)

GetWorstLeafFilterLastOnTies(tree, names, sc, n) ==
    WorstFromLastOnTies(ConvertLeaves(tree, names, EmptyFilter), sc, n, 1, INF, 0)

\* lines 254-262; the answer is <<min_score, number of the leaf>>
GetWorstLeafFilter(tree, names, sc, n) ==
    WorstFrom(ConvertLeaves(tree, names, EmptyFilter), sc, n, 1, INF, 0)

FillUnboundedOverwrites(flt, names) ==
    [f \in DOMAIN flt \cup {names[1], names[2]} |->
        IF f \in DOMAIN flt /\ f # names[2] THEN flt[f] ELSE <<NINF, INF>>]

\* lines 275-278: a feature the leaf does not constrain gets [-inf, inf]
FillUnbounded(flt, names) ==
    [f \in DOMAIN flt \cup {names[1], names[2]} |->
        IF f \in DOMAIN flt THEN flt[f] ELSE <<NINF, INF>>]

\* fit is <<"ValueError">> when grid_searcher.fit raises, else
\* <<"tree", best_estimator_.tree_, value of the metric per leaf>>.
\* kind "None" is the return of line 273, "AttributeError" the failure of
\* line 275 on a None filter, "segment" the return of line 279
FindWeakSegment(fit, names, n) ==
    IF fit[1] = "ValueError"
      THEN [kind |-> "None", score |-> NaN, leaf |-> EmptyFilter, filters |-> EmptyFilter]
    ELSE LET leaves == ConvertLeaves(fit[2], names, EmptyFilter)
             found  == GetWorstLeafFilter(fit[2], names, fit[3], n)
         IN  IF found[2] = 0
               THEN [kind |-> "AttributeError", score |-> found[1],
                     leaf |-> EmptyFilter, filters |-> EmptyFilter]
               ELSE [kind |-> "segment", score |-> found[1],
                     leaf |-> leaves[found[2]],
                     filters |-> FillUnbounded(leaves[found[2]], names)]

\* what grid_searcher.fit and the metric can give for one pair
Fits == {<<"ValueError">>} \cup
        {<<"tree", t, sc>> : t \in Trees, sc \in [1..4 -> ScoreVals]}

\* the returns _find_weak_segment can give for a pair on n rows
Segments == [n \in 1..MaxSamples, a \in DOMAIN Data[1], b \in DOMAIN Data[1] |->
               {FindWeakSegment(fit, <<a, b>>, n) : fit \in Fits}]

\* ------------------------------------------------ _weak_segments_search
Min(a, b) == IF a < b THEN a ELSE b

SearchWidthAllFeatures(rank, top) == Len(rank)

\* range(min(len(feature_rank_for_search), self.n_top_features))
SearchWidth(rank, top) == Min(Len(rank), top)

\* the pair of loop variables after (a, b) in the two nested for loops;
\* b = m means both loops are over
NextPair(a, b, m) ==
    IF b + 1 < m THEN <<a, b + 1>>
    ELSE IF a + 2 < m THEN <<a + 1, a + 2>>
    ELSE <<a + 1, m>>

\* the loop variables after the body ran for (a, b): the continue of line 234
\* and the end of the body both go on with the next pair
AfterPairBreaks(seg, a, b, m) ==
    IF seg.kind = "None"
      THEN (IF a + 2 < m THEN <<a + 1, a + 2>> ELSE <<a + 1, m>>)
      ELSE NextPair(a, b, m)

AfterPair(seg, a, b, m) == NextPair(a, b, m)

FirstPair(m) == IF 1 < m THEN <<0, 1>> ELSE <<0, IF m < 0 THEN 0 ELSE m>>

DataSizeAsFraction(flt, n) == [num |-> Cardinality(FilterRows(flt, n)), den |-> n]

\* '% of data' of line 235, kept as the exact quotient num / den
DataSize(flt, n) == [num |-> 100 * Cardinality(FilterRows(flt, n)), den |-> n]

\* the row written at lines 236-238
Record(seg, feature1, feature2, n) ==
    [score |-> seg.score, Feature1 |-> feature1, Feature1_range |-> seg.filters[feature1],
     Feature2 |-> feature2, Feature2_range |-> seg.filters[feature2],
     pct |-> DataSize(seg.filters, n)]

\* lines 233-238: no row for a pair whose search returned None
WithRecordOverwrites(table, seg, row) == IF seg.kind = "None" THEN table ELSE <<row>>

\* lines 233-238: a record is appended at index len(weak_segments)
WithRecord(table, seg, row) == IF seg.kind = "None" THEN table ELSE Append(table, row)

InsertSorted(t, x) ==
    LET k == Cardinality({q \in 1..Len(t) : ~ Less(x.score, t[q].score)})
    IN  SubSeq(t, 1, k) \o <<x>> \o SubSeq(t, k + 1, Len(t))

SortValuesForgotten(s) == s

RECURSIVE SortValues(_)
\* DataFrame.sort_values on the score column: ascending, not-a-number last;
\* rows of equal score stay in the order they were written, as numpy's sort
\* leaves them in a table this short
SortValues(s) ==
    IF Len(s) <= 1 THEN s
    ELSE InsertSorted(SortValues(SubSeq(s, 1, Len(s) - 1)), s[Len(s)])

\* ---------------------------------------------------------------- run_logic
\* the feature_rank of lines 119-123: the columns as they stand, or ordered
\* by an importance that ranks them the other way round
Ranks(L) == {[k \in 1..L |-> FeatureNames[k]], [k \in 1..L |-> FeatureNames[L + 1 - k]]}

TooFewFeaturesOffByOne(L) == L < 1

\* line 113
TooFewFeatures(L) == L < 2

NoSegmentsOffByOne(table) == Len(table) <= 1

\* line 128
NoSegments(table) == Len(table) = 0

Ratios == {20, 50}        \* max_ratio_change, in 1/100

ConditionNotStrict(res, max_ratio_change) ==
    IF ~ Less((100 - max_ratio_change) * res.avg_score, 100 * res.segments[1].score)
      THEN "WARN" ELSE "PASS"

\* the predicate of line 318, both sides times 100 * 100
Condition(res, max_ratio_change) ==
    LET weakest_segment_score == res.segments[1].score
    IN  IF Less(100 * weakest_segment_score, (100 - max_ratio_change) * res.avg_score)
          THEN "WARN" ELSE "PASS"

IdleLeaf == leaf_tree = <<>> /\ leaf_names = <<>> /\ leaf_sc = <<>> /\ leaf_worst = <<>>
IdleEnc  == /\ df = <<>> /\ cat_features = {} /\ threshold = <<>> /\ target_enc = <<>>
            /\ df_aggregated = <<>> /\ df_encoded = <<>> /\ encoder_mapping = <<>>
IdleFmt  == formatted = <<>>
IdleAny  == outcome = <<>> /\ pending = {} /\ any_pc = "idle"
IdleRec  == rec_request = <<>> /\ rec_result = <<>>
IdleHeat == /\ n_to_show = 0 /\ idx = 0 - 1 /\ display_tabs = <<>> /\ grid = <<>>
            /\ partitions = <<>> /\ heat_pc = "idle"
IdleExt  == IdleFmt /\ IdleAny /\ IdleRec /\ IdleHeat
IdleRun  == /\ pc = "idle" /\ err = "none" /\ n_features = 0 /\ n_top_features = 0
            /\ encoded = FALSE /\ scorer = FALSE /\ feature_rank = <<>>
            /\ i = 0 /\ j = 0 /\ weak_segments = <<>> /\ evals = <<>>
            /\ result = <<>> /\ condition = <<>>

Init ==
    /\ pc = "start"
    /\ err = "none"
    /\ n_samples \in 1..MaxSamples
    /\ n_features \in 0..MaxFeatures
    /\ n_top_features \in TopChoices
    /\ encoded = FALSE
    /\ scorer = FALSE
    /\ feature_rank = <<>>
    /\ i = 0
    /\ j = 0
    /\ weak_segments = <<>>
    /\ evals = <<>>
    /\ result = <<>>
    /\ condition = <<>>
    /\ IdleLeaf
    /\ IdleEnc
    /\ IdleExt

\* lines 100-114: sample, predict, per-sample loss, select, feature count
SelectFeatures ==
    /\ pc = "start"
    /\ IF TooFewFeatures(n_features)
         THEN pc' = "raised" /\ err' = "DeepchecksNotSupportedError"
         ELSE pc' = "encode" /\ err' = err
    /\ UNCHANGED <<n_samples, n_features, n_top_features, encoded, scorer,
                   feature_rank, i, j, weak_segments, evals, result, condition>>
    /\ UNCHANGED <<leafVars, encVars, extVars>>

\* lines 115-117, on a dataset without categorical features
Encode ==
    /\ pc = "encode"
    /\ encoded' = TRUE
    /\ pc' = "rank"
    /\ UNCHANGED <<err, n_samples, n_features, n_top_features, scorer,
                   feature_rank, i, j, weak_segments, evals, result, condition>>
    /\ UNCHANGED <<leafVars, encVars, extVars>>

\* lines 119-125, and the entry of _weak_segments_search (lines 225-228)
RankFeatures ==
    /\ pc = "rank"
    /\ feature_rank' \in Ranks(n_features)
    /\ scorer' = TRUE
    /\ i' = FirstPair(SearchWidth(feature_rank', n_top_features))[1]
    /\ j' = FirstPair(SearchWidth(feature_rank', n_top_features))[2]
    /\ pc' = "search"
    /\ UNCHANGED <<err, n_samples, n_features, n_top_features, encoded,
                   weak_segments, evals, result, condition>>
    /\ UNCHANGED <<leafVars, encVars, extVars>>

\* one pass of the inner loop body, lines 229-238
EvalPair ==
    /\ pc = "search"
    /\ j < SearchWidth(feature_rank, n_top_features)
    /\ \E seg \in Segments[n_samples, feature_rank[i + 1], feature_rank[j + 1]] :
         LET feature1 == feature_rank[i + 1]
             feature2 == feature_rank[j + 1]
             next == AfterPair(seg, i, j, SearchWidth(feature_rank, n_top_features))
         IN  /\ evals' = Append(evals,
                   [Feature1 |-> feature1, Feature2 |-> feature2, kind |-> seg.kind,
                    score |-> seg.score, leaf |-> seg.leaf])
             /\ IF seg.kind = "AttributeError"
                  THEN /\ pc' = "raised"
                       /\ err' = "AttributeError"
                       /\ UNCHANGED <<i, j, weak_segments>>
                  ELSE /\ pc' = pc
                       /\ err' = err
                       /\ i' = next[1]
                       /\ j' = next[2]
                       /\ weak_segments' =
                            WithRecord(weak_segments, seg,
                                       Record(seg, feature1, feature2, n_samples))
    /\ UNCHANGED <<n_samples, n_features, n_top_features, encoded, scorer,
                   feature_rank, result, condition>>
    /\ UNCHANGED <<leafVars, encVars, extVars>>

\* line 239
SearchReturn ==
    /\ pc = "search"
    /\ j >= SearchWidth(feature_rank, n_top_features)
    /\ weak_segments' = SortValues(weak_segments)
    /\ pc' = "searched"
    /\ UNCHANGED <<err, n_samples, n_features, n_top_features, encoded, scorer,
                   feature_rank, i, j, evals, result, condition>>
    /\ UNCHANGED <<leafVars, encVars, extVars>>

\* lines 128-144
BuildResult ==
    /\ pc = "searched"
    /\ IF NoSegments(weak_segments)
         THEN /\ pc' = "raised"
              /\ err' = "DeepchecksProcessError"
              /\ result' = result
         ELSE /\ pc' = "returned"
              /\ err' = err
              /\ \E avg \in ScoreVals, with_display \in BOOLEAN :
                   result' = [segments |-> weak_segments, avg_score |-> avg,
                              display |-> with_display]
    /\ UNCHANGED <<n_samples, n_features, n_top_features, encoded, scorer,
                   feature_rank, i, j, weak_segments, evals, condition>>
    /\ UNCHANGED <<leafVars, encVars, extVars>>

\* the condition of lines 314-321 run on the value of the result
RunCondition ==
    /\ pc = "returned"
    /\ \E max_ratio_change \in Ratios :
         condition' = [max_ratio_change |-> max_ratio_change,
                       category |-> Condition(result, max_ratio_change)]
    /\ pc' = "conditioned"
    /\ UNCHANGED <<err, n_samples, n_features, n_top_features, encoded, scorer,
                   feature_rank, i, j, weak_segments, evals, result>>
    /\ UNCHANGED <<leafVars, encVars, extVars>>

Next == \/ SelectFeatures \/ Encode \/ RankFeatures \/ EvalPair
        \/ SearchReturn \/ BuildResult \/ RunCondition

Spec == Init /\ [][Next]_vars

\* -------------------------------------------- get_worst_leaf_filter alone
LeafScores == ScoreVals \cup {85}
LeafNames  == {<<"f1", "f2">>, <<"f2", "f3">>, <<"f3", "f1">>}

InitLeaf ==
    /\ IdleRun
    /\ IdleEnc
    /\ IdleExt
    /\ n_samples \in 1..MaxSamples
    /\ leaf_tree \in Trees
    /\ leaf_names \in LeafNames
    /\ leaf_sc \in [1..4 -> LeafScores]
    /\ leaf_worst = <<>>

\* the call of line 271
CallGetWorstLeafFilter ==
    /\ leaf_worst = <<>>
    /\ leaf_worst' = GetWorstLeafFilter(leaf_tree, leaf_names, leaf_sc, n_samples)
    /\ UNCHANGED <<runVars, n_samples, leaf_tree, leaf_names, leaf_sc, encVars, extVars>>

NextLeaf == CallGetWorstLeafFilter

SpecLeaf == InitLeaf /\ [][NextLeaf]_vars

\* ------------------------- _target_encode_categorical_features_fill_na alone
Columns    == {"c1", "c2"}
RawValues  == {"a", "b"}
EncValues  == {0, 2}
AggregationThresholds == {<<1, 20>>, <<1, 2>>}   \* 0.05 (the default) and 0.5

\* Series.value_counts: how often v stands in the column
ValueCount(column, v) == Cardinality({r \in DOMAIN column : column[r] = v})

CategoriesToMaskInclusive(column, n, thr) ==
    {column[r] : r \in {q \in DOMAIN column :
                           ValueCount(column, column[q]) * thr[2] <= thr[1] * n}}

\* lines 150-151: v / n_samples < threshold, both sides times n * den
CategoriesToMask(column, n, thr) ==
    {column[r] : r \in {q \in DOMAIN column :
                           ValueCount(column, column[q]) * thr[2] < thr[1] * n}}

\* lines 148-152
Aggregate(frame, cats, n, thr) ==
    [c \in DOMAIN frame |->
        IF c \in cats
          THEN [r \in DOMAIN frame[c] |->
                  IF frame[c][r] \in CategoriesToMask(frame[c], n, thr)
                    THEN "other" ELSE frame[c][r]]
          ELSE frame[c]]

\* lines 154-160: TargetEncoder.fit_transform gives every category of a
\* categorical column its value enc; the other columns pass through
TargetEncode(frame, cats, enc) ==
    [c \in DOMAIN frame |->
        IF c \in cats THEN [r \in DOMAIN frame[c] |-> enc[frame[c][r]]] ELSE frame[c]]

RECURSIVE DropDuplicates(_)
DropDuplicates(rows) ==
    IF rows = <<>> THEN <<>>
    ELSE LET front == DropDuplicates(SubSeq(rows, 1, Len(rows) - 1))
             last  == rows[Len(rows)]
         IN  IF \E k \in 1..Len(front) : front[k] = last THEN front
             ELSE Append(front, last)

\* line 158: the distinct rows (encoded value, category) of a column
ValuesMapping(enc_frame, agg_frame, cats) ==
    [c \in cats |->
        DropDuplicates([r \in DOMAIN agg_frame[c] |-> <<enc_frame[c][r], agg_frame[c][r]>>])]

InitEnc ==
    /\ IdleRun
    /\ IdleLeaf
    /\ IdleExt
    /\ n_samples \in 1..MaxRows
    /\ df \in [Columns -> [1..n_samples -> RawValues]]
    /\ cat_features \in SUBSET Columns
    /\ threshold \in AggregationThresholds
    /\ target_enc \in [RawValues \cup {"other"} -> EncValues]
    /\ df_aggregated = <<>>
    /\ df_encoded = <<>>
    /\ encoder_mapping = <<>>

\* lines 146-163; the frame holds no missing value, so the fillna of line
\* 162 changes nothing
TargetEncodeCategoricalFeaturesFillNa ==
    /\ df_encoded = <<>>
    /\ df_aggregated' = Aggregate(df, cat_features, n_samples, threshold)
    /\ df_encoded' = TargetEncode(df_aggregated', cat_features, target_enc)
    /\ encoder_mapping' = ValuesMapping(df_encoded', df_aggregated', cat_features)
    /\ UNCHANGED <<runVars, n_samples, leafVars, df, cat_features, threshold, target_enc,
                   extVars>>

NextEnc == TargetEncodeCategoricalFeaturesFillNa

SpecEnc == InitEnc /\ [][NextEnc]_vars

\* ------------------------------------- _format_partition_vec_for_display
FormatPartitionVecAllOpen(partition_vec, feature_name, mapping) ==
    IF feature_name \in DOMAIN mapping
      THEN [k \in 1..(Len(partition_vec) - 1) |->
              LET InRange(row) == row[1] > partition_vec[k] /\ row[1] <= partition_vec[k + 1]
                  rows == SelectSeq(mapping[feature_name], InRange)
              IN  [q \in 1..Len(rows) |-> rows[q][2]]]
      ELSE [k \in 1..(Len(partition_vec) - 1) |->
              <<"(", partition_vec[k], partition_vec[k + 1], "]">>]

\* lines 281-303 with seperator = None: for a feature of the encoder mapping
\* the categories per interval, in the order of the mapping; else the
\* interval as '(lower, upper]', the first one with '[' (lines 299-301)
FormatPartitionVecForDisplay(partition_vec, feature_name, mapping) ==
    IF feature_name \in DOMAIN mapping
      THEN [k \in 1..(Len(partition_vec) - 1) |->
              LET lower == partition_vec[k]
                  upper == partition_vec[k + 1]
                  InRange(row) == IF lower = partition_vec[1]
                                    THEN row[1] >= lower /\ row[1] <= upper
                                    ELSE row[1] > lower /\ row[1] <= upper
                  rows == SelectSeq(mapping[feature_name], InRange)
              IN  [q \in 1..Len(rows) |-> rows[q][2]]]
      ELSE [k \in 1..(Len(partition_vec) - 1) |->
              <<IF k = 1 THEN "[" ELSE "(", partition_vec[k], partition_vec[k + 1], "]">>]

\* boundary vectors: two or three boundaries, non-decreasing, on and between
\* the encoded values
Boundaries == 0..2
PartitionVecs ==
    {<<a, b>> : a \in Boundaries, b \in Boundaries} \cup
    {<<a, b, c>> : a \in Boundaries, b \in Boundaries, c \in Boundaries}

NonDecreasing(vec) == \A k \in 1..(Len(vec) - 1) : vec[k] <= vec[k + 1]

InitFmt ==
    /\ IdleRun
    /\ IdleLeaf
    /\ n_samples \in 1..MaxSamples
    /\ df \in [Columns -> [1..n_samples -> RawValues]]
    /\ cat_features \in SUBSET Columns
    /\ threshold \in AggregationThresholds
    /\ target_enc \in [RawValues \cup {"other"} -> EncValues]
    /\ df_aggregated = <<>>
    /\ df_encoded = <<>>
    /\ encoder_mapping = <<>>
    /\ formatted = <<>>
    /\ IdleAny
    /\ IdleRec
    /\ IdleHeat

\* a call of _format_partition_vec_for_display once the mapping is built
FormatPartitionVec ==
    /\ df_encoded # <<>>
    /\ formatted = <<>>
    /\ \E feature_name \in Columns, partition_vec \in PartitionVecs :
         /\ NonDecreasing(partition_vec)
         /\ formatted' = [feature_name |-> feature_name, partition_vec |-> partition_vec,
                          out |-> FormatPartitionVecForDisplay(partition_vec, feature_name,
                                                               encoder_mapping)]
    /\ UNCHANGED <<runVars, n_samples, leafVars, encVars, anyVars, recVars, heatVars>>

NextFmt == TargetEncodeCategoricalFeaturesFillNa \/ FormatPartitionVec

SpecFmt == InitFmt /\ [][NextFmt]_vars

\* ------------------------------------------ the pair search in any order
\* the pairs of the loops of lines 227-228, for width m
Pairs(m) == {p \in (0..(m - 1)) \X (0..(m - 1)) : p[1] < p[2]}

\* lines 227-239 run in the order of the code on the outcomes out, from
\* pair (a, b) on
RECURSIVE WeakSegmentsSearch(_, _, _, _, _, _, _)
WeakSegmentsSearch(out, rank, n, a, b, m, table) ==
    IF b >= m
      THEN SortValues(table)
      ELSE WeakSegmentsSearch(out, rank, n, NextPair(a, b, m)[1], NextPair(a, b, m)[2], m,
                              WithRecord(table, out[<<a, b>>],
                                         Record(out[<<a, b>>], rank[a + 1], rank[b + 1], n)))

InitAnyOrder ==
    /\ pc = "idle" /\ err = "none" /\ encoded = FALSE /\ scorer = FALSE
    /\ i = 0 /\ j = 0 /\ evals = <<>> /\ result = <<>> /\ condition = <<>>
    /\ IdleLeaf
    /\ IdleEnc
    /\ IdleFmt
    /\ IdleRec
    /\ IdleHeat
    /\ n_samples \in 1..MaxSamples
    /\ n_features = MaxFeatures
    /\ n_top_features \in TopChoices
    /\ feature_rank \in Ranks(n_features)
    /\ weak_segments = <<>>
    /\ outcome = <<>>
    /\ pending = Pairs(SearchWidth(feature_rank, n_top_features))
    /\ any_pc = "eval"

\* lines 229-238 for a pair that is still to be evaluated, whichever it is;
\* what the evaluation reads is the dataset and the two features
EvalAnyPair ==
    /\ any_pc = "eval"
    /\ \E p \in pending :
         \E seg \in {sg \in Segments[n_samples, feature_rank[p[1] + 1], feature_rank[p[2] + 1]] :
                        sg.kind # "AttributeError"} :
            /\ outcome' = [q \in DOMAIN outcome \cup {p} |-> IF q = p THEN seg ELSE outcome[q]]
            /\ pending' = pending \ {p}
            /\ weak_segments' =
                 WithRecord(weak_segments, seg,
                            Record(seg, feature_rank[p[1] + 1], feature_rank[p[2] + 1], n_samples))
    /\ UNCHANGED <<pc, err, n_samples, n_features, n_top_features, encoded, scorer,
                   feature_rank, i, j, evals, result, condition, any_pc>>
    /\ UNCHANGED <<leafVars, encVars, fmtVars, recVars, heatVars>>

\* line 239, once every pair is evaluated
SortAnyOrder ==
    /\ any_pc = "eval"
    /\ pending = {}
    /\ weak_segments' = SortValues(weak_segments)
    /\ any_pc' = "sorted"
    /\ UNCHANGED <<pc, err, n_samples, n_features, n_top_features, encoded, scorer,
                   feature_rank, i, j, evals, result, condition, outcome, pending>>
    /\ UNCHANGED <<leafVars, encVars, fmtVars, recVars, heatVars>>

NextAnyOrder == EvalAnyPair \/ SortAnyOrder

SpecAnyOrder == InitAnyOrder /\ [][NextAnyOrder]_vars

\* ------------------------------------------- recommender Context, Scorer
MaxScorers == 2     \* most scorers asked of get_scorers in one call

\* metrics a caller may pass: a callable, a string, something else
Metrics == {[type |-> "callable", value |-> "custom_metric"],
            [type |-> "str", value |-> "reciprocal_rank"],
            [type |-> "str", value |-> "rank"],
            [type |-> "str", value |-> "no_such_metric"],
            [type |-> "other", value |-> "42"]}

\* names that getattr(ranking, name) of line 114 finds
RankingMetrics == {"reciprocal_rank", "rank"}

ScorerNames == {"m1", "m2", "m3"}

NoScorer == [raised |-> "none", per_sample_metric |-> "", name |-> "", to_avg |-> FALSE]

ScorerInitAcceptsAnyType(metric, name, to_avg) ==
    IF metric.type = "str" /\ metric.value \notin RankingMetrics
      THEN [NoScorer EXCEPT !.raised = "AttributeError"]
      ELSE [raised |-> "none", per_sample_metric |-> metric.value, name |-> name,
            to_avg |-> to_avg]

\* Scorer.__init__, lines 109-122: the scorer, or what it raised
ScorerInit(metric, name, to_avg) ==
    IF metric.type = "callable"
      THEN [raised |-> "none", per_sample_metric |-> metric.value, name |-> name,
            to_avg |-> to_avg]
      ELSE IF metric.type = "str"
        THEN IF metric.value \in RankingMetrics
               THEN [raised |-> "none", per_sample_metric |-> metric.value, name |-> name,
                     to_avg |-> to_avg]
               ELSE [NoScorer EXCEPT !.raised = "AttributeError"]
        ELSE [NoScorer EXCEPT !.raised = "DeepchecksValueError: Wrong scorer type"]

\* a list comprehension over Scorer(...), lines 206-210: every scorer, or
\* what the first failing construction raised
Construct(items, to_avg) ==
    LET made == [k \in 1..Len(items) |-> ScorerInit(items[k].metric, items[k].name, to_avg)]
        failed == {k \in 1..Len(items) : made[k].raised # "none"}
    IN  IF failed = {}
          THEN [raised |-> "none", scorers |-> made]
          ELSE [raised |-> made[CHOOSE k \in failed : \A q \in failed : k <= q].raised,
                scorers |-> <<>>]

\* get_single_scorer, lines 213-217
GetSingleScorer(metric, use_avg_defaults) ==
    IF metric.kind = "None"
      THEN Construct(<<[name |-> "None", metric |-> [type |-> "str", value |-> "reciprocal_rank"]]>>,
                     use_avg_defaults)
      ELSE Construct(metric.items, use_avg_defaults)

\* get_scorers, lines 200-211
GetScorers(scorers, use_avg_defaults) ==
    IF scorers.kind = "None"
      THEN Construct(<<[name |-> "None", metric |-> [type |-> "str", value |-> "reciprocal_rank"]],
                       [name |-> "None", metric |-> [type |-> "str", value |-> "rank"]]>>,
                     use_avg_defaults)
      ELSE Construct(scorers.items, use_avg_defaults)

\* arguments: None, one metric, a list of metrics, a mapping from name to metric
ListsOf(len) == [1..len -> {[name |-> "None", metric |-> m] : m \in Metrics}]
MappingsOf(len) ==
    {items \in [1..len -> {[name |-> nm, metric |-> m] : nm \in ScorerNames, m \in Metrics}] :
        \A k \in 1..len, q \in 1..len : k # q => items[k].name # items[q].name}

SingleArgs == {[kind |-> "None", items |-> <<>>]} \cup
              {[kind |-> "metric", items |-> items] : items \in ListsOf(1)}
ScorersArgs == {[kind |-> "None", items |-> <<>>]} \cup
               {[kind |-> "list", items |-> items] :
                    items \in UNION {ListsOf(len) : len \in 0..MaxScorers}} \cup
               {[kind |-> "Mapping", items |-> items] :
                    items \in UNION {MappingsOf(len) : len \in 0..MaxScorers}}

InitRec ==
    /\ IdleRun
    /\ IdleLeaf
    /\ IdleEnc
    /\ IdleFmt
    /\ IdleAny
    /\ IdleHeat
    /\ n_samples = 1
    /\ rec_request \in
         {[api |-> "get_single_scorer", arg |-> a, use_avg_defaults |-> u] :
              a \in SingleArgs, u \in BOOLEAN} \cup
         {[api |-> "get_scorers", arg |-> a, use_avg_defaults |-> u] :
              a \in ScorersArgs, u \in BOOLEAN}
    /\ rec_result = <<>>

CallGetSingleScorer ==
    /\ rec_result = <<>>
    /\ rec_request.api = "get_single_scorer"
    /\ rec_result' = GetSingleScorer(rec_request.arg, rec_request.use_avg_defaults)
    /\ UNCHANGED <<runVars, n_samples, leafVars, encVars, fmtVars, anyVars, heatVars,
                   rec_request>>

CallGetScorers ==
    /\ rec_result = <<>>
    /\ rec_request.api = "get_scorers"
    /\ rec_result' = GetScorers(rec_request.arg, rec_request.use_avg_defaults)
    /\ UNCHANGED <<runVars, n_samples, leafVars, encVars, fmtVars, anyVars, heatVars,
                   rec_request>>

NextRec == CallGetSingleScorer \/ CallGetScorers

SpecRec == InitRec /\ [][NextRec]_vars

\* ------------------------------------------------ _create_heatmap_display
ShowChoices == 0..3      \* values of the n_to_show parameter (default 3)

\* encoded_dataset.data of the display: a dataset of n rows is the first n
\* rows of this table; three levels per feature, so that values lie on
\* both sides of a split point and strictly between two others
HeatData == << [f1 |-> 0, f2 |-> 0, f3 |-> 2],
               [f1 |-> 2, f2 |-> 2, f3 |-> 0],
               [f1 |-> 4, f2 |-> 0, f3 |-> 2],
               [f1 |-> 2, f2 |-> 4, f3 |-> 4],
               [f1 |-> 4, f2 |-> 2, f3 |-> 0],
               [f1 |-> 0, f2 |-> 4, f3 |-> 4] >>

HeatPairs == << <<"f1", "f2">>, <<"f1", "f3">>, <<"f2", "f3">> >>

\* ranges of a worst leaf: no split on the feature, or the side below the
\* split point 1
HeatRanges == {<<NINF, INF>>, <<NINF, 1>>}

\* rows of the display's dataset inside both ranges of a record
HeatRows(feature1, range1, feature2, range2, n) ==
    {r \in 1..n : /\ HeatData[r][feature1] > range1[1] /\ HeatData[r][feature1] <= range1[2]
                  /\ HeatData[r][feature2] > range2[1] /\ HeatData[r][feature2] <= range2[2]}

\* the records a pair can have in the table: lines 236-238
HeatRecords(pair, n) ==
    {[score |-> sc, Feature1 |-> pair[1], Feature1_range |-> r1,
      Feature2 |-> pair[2], Feature2_range |-> r2,
      pct |-> [num |-> 100 * Cardinality(HeatRows(pair[1], r1, pair[2], r2, n)), den |-> n]] :
        sc \in ScoreVals, r1 \in HeatRanges, r2 \in HeatRanges}

\* the sorted tables _weak_segments_search can return on n rows: at most
\* one record per pair, each of a non-empty segment, and at least one record
HeatTables ==
    [n \in 1..MaxSamples |->
        LET Opt(k) == {<<>>} \cup
                      {<<rec>> : rec \in {h \in HeatRecords(HeatPairs[k], n) : h.pct.num > 0}}
        IN  {SortValues(a \o b \o c) : a \in Opt(1), b \in Opt(2), c \in Opt(3)} \ {<<>>}]

\* the elements of a set of numbers in increasing order
SortSet(S) == [k \in 1..Cardinality(S) |-> CHOOSE x \in S : Cardinality({y \in S : y < x}) = k - 1]

SetMin(S) == CHOOSE x \in S : \A y \in S : x <= y
SetMax(S) == CHOOSE x \in S : \A y \in S : x >= y

\* partition_numeric_feature_around_segment, spec 4.2: the boundary vectors
\* it may return. Only the segment's edges when no value lies outside the
\* segment; else the feature's minimum and maximum, the segment's finite
\* edges, and possibly one more boundary outside the segment.
PartitionNumericFeatureAroundSegment(values, range) ==
    LET below == {v \in values : v <= range[1]}
        above == {v \in values : v > range[2]}
        base  == {SetMin(values), SetMax(values)}
                   \cup (IF range[1] = NINF THEN {} ELSE {range[1]})
                   \cup (IF range[2] = INF THEN {} ELSE {range[2]})
        more  == (IF range[1] = NINF THEN {} ELSE (SetMin(values) + 1)..(range[1] - 1))
                   \cup (IF range[2] = INF THEN {} ELSE (range[2] + 1)..(SetMax(values) - 1))
    IN  IF below \cup above = {}
          THEN {range}
          ELSE {SortSet(base \cup extra) : extra \in {{}} \cup {{x} : x \in more}}

\* Series.between of lines 182-183: both ends included
Between(v, left, right) == left <= v /\ v <= right

\* rows of the cell (a, b) of the grid, lines 181-183
SegmentData(feature1, segments_f1, a, feature2, segments_f2, b, n) ==
    {r \in 1..n : /\ Between(HeatData[r][feature1], segments_f1[a], segments_f1[a + 1])
                  /\ Between(HeatData[r][feature2], segments_f2[b], segments_f2[b + 1])}

\* the rows the model predicts right, and the scorer on a slice: the share
\* of them in 1/100
Correct == {1, 3, 4}
HeatScorer(rows) == (100 * Cardinality(rows \cap Correct)) \div Cardinality(rows)

\* lines 177-190: score and count of every cell, and whether the scorer ran
Grid(feature1, segments_f1, feature2, segments_f2, n) ==
    [a \in 1..(Len(segments_f1) - 1) |-> [b \in 1..(Len(segments_f2) - 1) |->
        LET segment_data == SegmentData(feature1, segments_f1, a, feature2, segments_f2, b, n)
        IN  IF segment_data = {}
              THEN [score |-> NaN, count |-> 0, scored |-> FALSE]
              ELSE [score |-> HeatScorer(segment_data), count |-> Cardinality(segment_data),
                    scored |-> TRUE]]]

\* line 219: display_tabs[key] = ...
SetTab(tabs, key) ==
    IF \E k \in 1..Len(tabs) : tabs[k] = key THEN tabs ELSE Append(tabs, key)

MoreToShowIgnoresLimit == idx + 1 < Len(weak_segments)

\* the loop condition of line 169
MoreToShow == Len(display_tabs) < n_to_show /\ idx + 1 < Len(weak_segments)

InitHeat ==
    /\ IdleRun
    /\ IdleLeaf
    /\ IdleEnc
    /\ IdleFmt
    /\ IdleAny
    /\ IdleRec
    /\ n_samples \in 1..MaxSamples
    /\ n_to_show \in ShowChoices
    /\ idx = 0 - 1
    /\ display_tabs = <<>>
    /\ grid = <<>>
    /\ partitions = <<>>
    /\ heat_pc = "start"

\* the call of line 133: the sorted table of the search
HeatmapCall ==
    /\ heat_pc = "start"
    /\ weak_segments' \in HeatTables[n_samples]
    /\ heat_pc' = "loop"
    /\ UNCHANGED <<pc, err, n_samples, n_features, n_top_features, encoded, scorer,
                   feature_rank, i, j, evals, result, condition>>
    /\ UNCHANGED <<leafVars, encVars, fmtVars, anyVars, recVars>>
    /\ UNCHANGED <<n_to_show, idx, display_tabs, grid, partitions>>

\* one pass of the loop body, lines 170-219
HeatmapStep ==
    /\ heat_pc = "loop"
    /\ MoreToShow
    /\ idx' = idx + 1
    /\ LET segment == weak_segments[idx' + 1]
           Column(name) == {HeatData[r][name] : r \in 1..n_samples}
       IN  \E segments_f1 \in PartitionNumericFeatureAroundSegment(Column(segment.Feature1),
                                                                   segment.Feature1_range),
              segments_f2 \in PartitionNumericFeatureAroundSegment(Column(segment.Feature2),
                                                                   segment.Feature2_range) :
             /\ partitions' = Append(partitions, <<segments_f1, segments_f2>>)
             /\ IF Len(segments_f1) <= 2 \/ Len(segments_f2) <= 2
                  THEN UNCHANGED <<display_tabs, grid>>
                  ELSE /\ grid' = [Feature1 |-> segment.Feature1, segments_f1 |-> segments_f1,
                                   Feature2 |-> segment.Feature2, segments_f2 |-> segments_f2,
                                   cells |-> Grid(segment.Feature1, segments_f1,
                                                  segment.Feature2, segments_f2, n_samples)]
                       /\ display_tabs' = SetTab(display_tabs,
                                                 <<segment.Feature1, segment.Feature2>>)
    /\ UNCHANGED <<runVars, n_samples, leafVars, encVars, fmtVars, anyVars, recVars>>
    /\ UNCHANGED <<n_to_show, heat_pc>>

\* line 221
HeatmapReturn ==
    /\ heat_pc = "loop"
    /\ ~ MoreToShow
    /\ heat_pc' = "done"
    /\ UNCHANGED <<runVars, n_samples, leafVars, encVars, fmtVars, anyVars, recVars>>
    /\ UNCHANGED <<n_to_show, idx, display_tabs, grid, partitions>>

NextHeat == HeatmapCall \/ HeatmapStep \/ HeatmapReturn

SpecHeat == InitHeat /\ [][NextHeat]_vars

\* the loop is run to its end: a call that started returns unless it loops
\* for ever
SpecHeatFair == SpecHeat /\ WF_vars(NextHeat)

\* ------------------------------------------------------------ properties
\* _weak_segments_search has returned its table
SearchOver == \/ pc \in {"searched", "returned", "conditioned"}
              \/ pc = "raised" /\ err = "DeepchecksProcessError"

Succeeded == {k \in 1..Len(evals) : evals[k].kind = "segment"}
Skipped   == {k \in 1..Len(evals) : evals[k].kind = "None"}

\* record r is the row of evaluation e
RowOf(r, e) == e.kind = "segment" /\ e.Feature1 = r.Feature1 /\ e.Feature2 = r.Feature2

\* C1: the table _weak_segments_search returns is ordered non-decreasing by
\* score: of two adjacent records the earlier one's score is at most the
\* later one's, so the first record is the worst segment.
C1_SortedByScore ==
    SearchOver =>
        /\ \A k \in 1..(Len(weak_segments) - 1) :
               Leq(weak_segments[k].score, weak_segments[k + 1].score)
        /\ \A k \in 1..Len(weak_segments) :
               Leq(weak_segments[1].score, weak_segments[k].score)

\* the search returned a table whose rows were written in another order
C1_Witness ==
    /\ pc = "searched"
    /\ \E a \in Succeeded, b \in Succeeded : a < b /\ evals[a].score > evals[b].score

\* C2: a pair whose fit fails is skipped: no record is written for it, the
\* search goes on with the next pair, and once the loop is over every pair
\* was evaluated and the records are as many as the pairs whose fit succeeded.
C2_FailedPairSkipped ==
    /\ [](SearchOver =>
            LET m == SearchWidth(feature_rank, n_top_features)
            IN  /\ Len(weak_segments) = Len(evals) - Cardinality(Skipped)
                /\ 2 * Len(evals) = IF m < 2 THEN 0 ELSE m * (m - 1))
    /\ [][(Len(evals') = Len(evals) + 1 /\ evals'[Len(evals')].kind = "None") =>
            /\ weak_segments' = weak_segments
            /\ pc' = "search"
            /\ err' = "none"
            /\ <<i', j'>> = NextPair(i, j, SearchWidth(feature_rank, n_top_features))]_vars

\* the loop is over, a fit failed before another one succeeded
C2_Witness ==
    /\ pc = "searched"
    /\ \E a \in Skipped, b \in Succeeded : a < b
    /\ Len(weak_segments) < Len(evals)

\* C3: run_logic raises DeepchecksProcessError if and only if the search
\* left no record (every evaluated pair was skipped); with a record a result
\* is returned, and when an error is raised there is no result.
C3_ProcessErrorIffNoSegment ==
    /\ (err = "DeepchecksProcessError") =>
           pc = "raised" /\ SearchOver /\ Succeeded = {} /\ weak_segments = <<>>
    /\ (SearchOver /\ pc # "searched" /\ Succeeded = {}) =>
           pc = "raised" /\ err = "DeepchecksProcessError"
    /\ (SearchOver /\ pc # "searched" /\ Succeeded # {}) =>
           /\ pc \in {"returned", "conditioned"}
           /\ err = "none"
           /\ result # <<>>
           /\ result.segments = weak_segments
           /\ result.avg_score \in ScoreVals
    /\ (err # "none") => pc = "raised" /\ result = <<>> /\ condition = <<>>

\* every pair of a search over three features failed
C3_Witness ==
    /\ pc = "raised"
    /\ err = "DeepchecksProcessError"
    /\ Len(evals) = 3

\* C4: the condition gives WARN exactly when the score of the first (worst)
\* record is strictly below (1 - max_ratio_change) * avg_score, and PASS
\* otherwise, also when the two are equal.
C4_ConditionThreshold ==
    (condition # <<>>) =>
        LET worst == result.segments[1].score
            ratio == condition.max_ratio_change
        IN  /\ \A k \in Succeeded : worst <= evals[k].score
            /\ condition.category \in {"WARN", "PASS"}
            /\ condition.category = "WARN"
                 <=> 100 * worst < (100 - ratio) * result.avg_score

\* the worst of several records sits exactly on the threshold
C4_Witness ==
    /\ condition # <<>>
    /\ Len(result.segments) >= 2
    /\ 100 * result.segments[1].score
         = (100 - condition.max_ratio_change) * result.avg_score
    /\ condition.category = "PASS"

\* C5: with fewer than two features run_logic raises
\* DeepchecksNotSupportedError at once: the encoding, the scorer and the
\* search never start and there is no result.
C5_TooFewFeaturesRaises ==
    (n_features < 2) =>
        /\ pc \in {"start", "raised"}
        /\ pc = "raised" => err = "DeepchecksNotSupportedError"
        /\ ~ encoded
        /\ ~ scorer
        /\ feature_rank = <<>>
        /\ evals = <<>>
        /\ weak_segments = <<>>
        /\ result = <<>>

\* a dataset with one feature was refused
C5_Witness ==
    /\ n_features = 1
    /\ pc = "raised"
    /\ err = "DeepchecksNotSupportedError"

\* rows of the full dataset inside the leaf the search chose for a pair
LeafRows(e) == Cardinality(FilterRows(e.leaf, n_samples))

\* C6 as stated: the value of a record is the fraction rows / n_samples, in
\* (0, 1].
C6_FractionOfData ==
    \A k \in 1..Len(weak_segments), e \in 1..Len(evals) :
        RowOf(weak_segments[k], evals[e]) =>
            LET pct == weak_segments[k].pct
            IN  /\ 0 < pct.num
                /\ pct.num <= pct.den
                /\ pct.num * n_samples = LeafRows(evals[e]) * pct.den

\* C6 amended: the value of a record is the percentage
\* 100 * rows / n_samples, in (0, 100], rows being the rows of the full
\* encoded dataset that match the filter of the worst leaf.
C6_PercentOfData ==
    \A k \in 1..Len(weak_segments) :
        /\ \E e \in 1..Len(evals) : RowOf(weak_segments[k], evals[e])
        /\ \A e \in 1..Len(evals) :
             RowOf(weak_segments[k], evals[e]) =>
                LET pct == weak_segments[k].pct
                IN  /\ 0 < pct.num
                    /\ pct.num <= 100 * pct.den
                    /\ pct.num * n_samples = 100 * LeafRows(evals[e]) * pct.den

\* a record whose leaf holds some of the rows, not all
C6_Witness ==
    /\ pc = "searched"
    /\ \E k \in 1..Len(weak_segments) :
         /\ 0 < weak_segments[k].pct.num
         /\ weak_segments[k].pct.num < 100 * weak_segments[k].pct.den

\* C7: every record holds a range for both features of its pair: the range
\* of the leaf filter for a feature the leaf constrains, [-inf, +inf] for a
\* feature its path never split on.
C7_BothRangesRecorded ==
    \A k \in 1..Len(weak_segments), e \in 1..Len(evals) :
        RowOf(weak_segments[k], evals[e]) =>
            LET r == weak_segments[k]
                leaf == evals[e].leaf
            IN  /\ r.Feature1_range =
                     IF r.Feature1 \in DOMAIN leaf THEN leaf[r.Feature1] ELSE <<NINF, INF>>
                /\ r.Feature2_range =
                     IF r.Feature2 \in DOMAIN leaf THEN leaf[r.Feature2] ELSE <<NINF, INF>>

\* records of both kinds: a leaf that constrains only the first feature of
\* its pair, a leaf that constrains only the second
C7_Witness ==
    /\ pc = "searched"
    /\ \E k \in 1..Len(weak_segments) :
         /\ weak_segments[k].Feature1_range = <<NINF, INF>>
         /\ weak_segments[k].Feature2_range # <<NINF, INF>>
    /\ \E k \in 1..Len(weak_segments) :
         /\ weak_segments[k].Feature1_range # <<NINF, INF>>
         /\ weak_segments[k].Feature2_range = <<NINF, INF>>

\* C8: the search evaluates each unordered pair of distinct features among
\* the first min(L, N) ranked features exactly once, the higher-ranked one
\* as Feature1; no feature ranked after position N is evaluated or recorded.
C8_EveryTopPairOnce ==
    LET m == Min(Len(feature_rank), n_top_features)
        InTop(f1, f2) == \E a \in 1..m, b \in 1..m :
                            a < b /\ feature_rank[a] = f1 /\ feature_rank[b] = f2
    IN  /\ \A e \in 1..Len(evals) : InTop(evals[e].Feature1, evals[e].Feature2)
        /\ \A e1 \in 1..Len(evals), e2 \in 1..Len(evals) :
             (evals[e1].Feature1 = evals[e2].Feature1
                /\ evals[e1].Feature2 = evals[e2].Feature2) => e1 = e2
        /\ \A k \in 1..Len(weak_segments) :
             InTop(weak_segments[k].Feature1, weak_segments[k].Feature2)
        /\ SearchOver =>
             /\ 2 * Len(evals) = IF m < 2 THEN 0 ELSE m * (m - 1)
             /\ \A a \in 1..m, b \in 1..m :
                  a < b => \E e \in 1..Len(evals) :
                              /\ evals[e].Feature1 = feature_rank[a]
                              /\ evals[e].Feature2 = feature_rank[b]

\* a search over the first two of three features, ranked against the
\* column order, is over
C8_Witness ==
    /\ pc = "searched"
    /\ Len(feature_rank) = 3
    /\ n_top_features = 2
    /\ feature_rank[1] = FeatureNames[3]
    /\ Len(evals) = 1

\* the score get_worst_leaf_filter computes for leaf k of its tree
LeafScore(k) ==
    RunOnDataAndLabel(ConvertLeaves(leaf_tree, leaf_names, EmptyFilter)[k],
                      n_samples, leaf_sc[k])

LeafCount == Len(ConvertLeaves(leaf_tree, leaf_names, EmptyFilter))

\* C9: get_worst_leaf_filter returns the leaf whose score is the minimum
\* over the leaves of the tree, the first such leaf on ties; a leaf whose
\* slice scores not-a-number is never the one returned, and the score
\* returned is the score of the leaf returned.
C9_WorstLeafIsFirstMinimum ==
    (leaf_worst # <<>>) =>
        LET min_score == leaf_worst[1]
            leaf == leaf_worst[2]
        IN  IF leaf = 0
              THEN \A k \in 1..LeafCount : LeafScore(k) = NaN
              ELSE /\ leaf \in 1..LeafCount
                   /\ LeafScore(leaf) # NaN
                   /\ min_score = LeafScore(leaf)
                   /\ \A k \in 1..LeafCount :
                        LeafScore(k) = NaN \/ min_score <= LeafScore(k)
                   /\ \A k \in 1..(leaf - 1) :
                        LeafScore(k) = NaN \/ min_score < LeafScore(k)

\* the leaf returned comes after a leaf without rows and before a leaf that
\* scores the same
C9_Witness ==
    /\ leaf_worst # <<>>
    /\ leaf_worst[2] > 1
    /\ \E k \in 1..(leaf_worst[2] - 1) : LeafScore(k) = NaN
    /\ \E k \in (leaf_worst[2] + 1)..LeafCount : LeafScore(k) = leaf_worst[1]
    /\ \E k \in 1..LeafCount : LeafScore(k) # NaN /\ LeafScore(k) > leaf_worst[1]

\* C10: a category of a categorical feature is replaced by 'other' if and
\* only if its count divided by the number of samples is strictly below
\* categorical_aggregation_threshold (at the threshold it is kept); values
\* of the other features are never replaced.
C10_RareCategoriesMerged ==
    (df_encoded # <<>>) =>
        \A c \in Columns, r \in 1..n_samples :
            LET v == df[c][r]
                count == Cardinality({q \in 1..n_samples : df[c][q] = v})
            IN  IF c \in cat_features
                  THEN /\ df_aggregated[c][r] = "other"
                            <=> count * threshold[2] < threshold[1] * n_samples
                       /\ df_aggregated[c][r] \in {"other", v}
                       /\ df_encoded[c][r] = target_enc[df_aggregated[c][r]]
                  ELSE /\ df_aggregated[c][r] = v
                       /\ df_encoded[c][r] = v

\* one categorical column keeps a category that sits exactly on the
\* threshold, another one loses a category below it, and the same rare value
\* stays in a column that is not categorical
C10_Witness ==
    /\ df_encoded # <<>>
    /\ \E c \in cat_features, r \in 1..n_samples :
         /\ ValueCount(df[c], df[c][r]) * threshold[2] = threshold[1] * n_samples
         /\ df_aggregated[c][r] = df[c][r]
    /\ \E c \in cat_features, r \in 1..n_samples :
         /\ ValueCount(df[c], df[c][r]) * threshold[2] < threshold[1] * n_samples
         /\ df_aggregated[c][r] = "other"

\* a column that is not categorical keeps a value rarer than the threshold
C10_WitnessNotCategorical ==
    /\ df_encoded # <<>>
    /\ \E c \in Columns \ cat_features, r \in 1..n_samples :
         /\ ValueCount(df[c], df[c][r]) * threshold[2] < threshold[1] * n_samples
         /\ df_aggregated[c][r] = df[c][r]

\* the categories of the feature just formatted, as the mapping lists them
FormattedRows == encoder_mapping[formatted.feature_name]

\* number of intervals of the result that list category cat
ListedIn(cat) ==
    Cardinality({k \in 1..Len(formatted.out) :
                    \E q \in 1..Len(formatted.out[k]) : formatted.out[k][q] = cat})

\* a categorical feature was formatted with the range [v, v]
Bracketing ==
    /\ formatted # <<>>
    /\ formatted.feature_name \in cat_features
    /\ Len(formatted.partition_vec) = 2
    /\ formatted.partition_vec[1] = formatted.partition_vec[2]

\* C11 as stated: decoding a range that exactly brackets the encoded value
\* of a category present in the dataset returns that category.
C11_RoundTripOriginal ==
    Bracketing =>
        \A r \in 1..n_samples :
            df_encoded[formatted.feature_name][r] = formatted.partition_vec[1]
                => formatted.out[1] = <<df[formatted.feature_name][r]>>

\* C11 amended: decoding the range [v, v] returns exactly the categories of
\* the feature, after the rare ones were merged into 'other', whose encoded
\* value is v; a category that was not merged is among them, and alone when
\* no other category of the feature has the same encoded value.
C11_RoundTripAfterMerge ==
    Bracketing =>
        LET f == formatted.feature_name
            v == formatted.partition_vec[1]
            listed == {formatted.out[1][q] : q \in 1..Len(formatted.out[1])}
        IN  /\ listed = {df_aggregated[f][r] : r \in {q \in 1..n_samples : df_encoded[f][q] = v}}
            /\ Len(formatted.out[1]) = Cardinality(listed)
            /\ \A r \in 1..n_samples :
                 (df_encoded[f][r] = v /\ df_aggregated[f][r] = df[f][r]) =>
                    /\ df[f][r] \in listed
                    /\ (\A q \in 1..n_samples :
                          df_encoded[f][q] = v => df_aggregated[f][q] = df[f][r])
                         => formatted.out[1] = <<df[f][r]>>

\* a category that keeps its name and shares its encoded value with no other
\* one is decoded from the range that brackets its value
C11_Witness ==
    /\ Bracketing
    /\ Len(encoder_mapping[formatted.feature_name]) >= 2
    /\ \E r \in 1..n_samples :
         /\ df_encoded[formatted.feature_name][r] = formatted.partition_vec[1]
         /\ formatted.out[1] = <<df[formatted.feature_name][r]>>

\* C12: for a non-decreasing boundary vector of a categorical feature the
\* lowest interval is closed on both ends and every other one open below and
\* closed above, so each category whose encoded value lies between the first
\* and the last boundary is listed in exactly one interval, and a category
\* outside of them in none.
C12_EachCategoryInOneInterval ==
    (formatted # <<>> /\ formatted.feature_name \in cat_features) =>
        LET vec == formatted.partition_vec
        IN  /\ \A k \in 1..(Len(vec) - 1), q \in 1..Len(FormattedRows) :
                 (\E p \in 1..Len(formatted.out[k]) :
                      formatted.out[k][p] = FormattedRows[q][2])
                 <=> IF k = 1
                       THEN vec[1] <= FormattedRows[q][1] /\ FormattedRows[q][1] <= vec[2]
                       ELSE vec[k] < FormattedRows[q][1] /\ FormattedRows[q][1] <= vec[k + 1]
            /\ \A q \in 1..Len(FormattedRows) :
                 ListedIn(FormattedRows[q][2]) =
                    IF vec[1] <= FormattedRows[q][1] /\ FormattedRows[q][1] <= vec[Len(vec)]
                      THEN 1 ELSE 0

\* the same for a strictly increasing boundary vector
C12_StrictlyIncreasingVector ==
    (/\ formatted # <<>>
     /\ formatted.feature_name \in cat_features
     /\ \A k \in 1..(Len(formatted.partition_vec) - 1) :
          formatted.partition_vec[k] < formatted.partition_vec[k + 1])
        => C12_EachCategoryInOneInterval

\* what the search of the code, in its own order, returns on the same outcomes
InCodeOrder ==
    WeakSegmentsSearch(outcome, feature_rank, n_samples,
                       FirstPair(SearchWidth(feature_rank, n_top_features))[1],
                       FirstPair(SearchWidth(feature_rank, n_top_features))[2],
                       SearchWidth(feature_rank, n_top_features), <<>>)

RecordsOf(table) == {table[k] : k \in 1..Len(table)}
ScoresOf(table) == [k \in 1..Len(table) |-> table[k].score]

\* C13 as stated: evaluating the pairs in any order yields the same set of
\* records and, after the final sort, the same worst-first result.
C13_SameResultInAnyOrder ==
    any_pc = "sorted" =>
        /\ RecordsOf(weak_segments) = RecordsOf(InCodeOrder)
        /\ weak_segments = InCodeOrder

\* C13 amended: evaluating the pairs in any order yields the same set of
\* records and, after the final sort, the same worst-first sequence of
\* scores; records of equal score may stand in another order.
C13_SameRecordsAndScoresInAnyOrder ==
    any_pc = "sorted" =>
        /\ RecordsOf(weak_segments) = RecordsOf(InCodeOrder)
        /\ Len(weak_segments) = Len(InCodeOrder)
        /\ ScoresOf(weak_segments) = ScoresOf(InCodeOrder)
        /\ \A k \in 1..(Len(weak_segments) - 1) :
             weak_segments[k].score <= weak_segments[k + 1].score

\* three pairs were evaluated in another order than the code's, with
\* different scores among their records
C13_Witness ==
    /\ any_pc = "sorted"
    /\ Len(weak_segments) = 3
    /\ weak_segments[1].score < weak_segments[3].score
    /\ weak_segments # InCodeOrder

\* the metrics of the request that are neither a callable nor a string, and
\* the strings among them that name no metric of the ranking module
WrongType(k) == rec_request.arg.items[k].metric.type = "other"
NoSuchMetric(k) ==
    /\ rec_request.arg.items[k].metric.type = "str"
    /\ rec_request.arg.items[k].metric.value \notin RankingMetrics
Failing == {k \in 1..Len(rec_request.arg.items) : WrongType(k) \/ NoSuchMetric(k)}

\* C14: a metric that is neither a callable nor a string raises the 'Wrong
\* scorer type' value error and a string that names no metric of the ranking
\* module fails at construction too; the failure reaches the caller of
\* get_single_scorer / get_scorers and no scorer is returned;
\* get_single_scorer(None) returns the default 'reciprocal_rank' scorer.
C14_WrongScorerFails ==
    rec_result # <<>> =>
        /\ Failing # {} =>
             /\ rec_result.raised # "none"
             /\ rec_result.scorers = <<>>
             /\ \A k \in Failing :
                  (\A q \in Failing : k <= q) =>
                     /\ WrongType(k) =>
                          rec_result.raised = "DeepchecksValueError: Wrong scorer type"
                     /\ NoSuchMetric(k) => rec_result.raised = "AttributeError"
        /\ (Failing = {} /\ rec_request.arg.kind # "None") =>
             /\ rec_result.raised = "none"
             /\ Len(rec_result.scorers) = Len(rec_request.arg.items)
        /\ (rec_request.api = "get_single_scorer" /\ rec_request.arg.kind = "None") =>
             /\ rec_result.raised = "none"
             /\ rec_result.scorers =
                  <<[raised |-> "none", per_sample_metric |-> "reciprocal_rank",
                     name |-> "None", to_avg |-> rec_request.use_avg_defaults]>>

\* get_scorers was given a usable metric followed by one of a wrong type and
\* raised the value error
C14_Witness ==
    /\ rec_result # <<>>
    /\ rec_request.api = "get_scorers"
    /\ Len(rec_request.arg.items) = 2
    /\ 1 \notin Failing
    /\ WrongType(2)
    /\ rec_result.raised = "DeepchecksValueError: Wrong scorer type"

\* the other cases of C14: a wrong type and an unknown name given to
\* get_single_scorer, and its default
C14_WitnessSingleWrongType ==
    /\ rec_result # <<>> /\ rec_request.api = "get_single_scorer"
    /\ rec_request.arg.kind = "metric" /\ WrongType(1) /\ rec_result.scorers = <<>>
C14_WitnessNoSuchMetric ==
    /\ rec_result # <<>> /\ rec_request.api = "get_single_scorer"
    /\ rec_request.arg.kind = "metric" /\ NoSuchMetric(1)
    /\ rec_result.raised = "AttributeError"
C14_WitnessDefault ==
    /\ rec_result # <<>> /\ rec_request.api = "get_single_scorer"
    /\ rec_request.arg.kind = "None" /\ Len(rec_result.scorers) = 1

\* the records walked so far for which a panel was built: both features
\* with at least 3 boundaries
Panelled == {k \in 1..Len(partitions) : Len(partitions[k][1]) >= 3 /\ Len(partitions[k][2]) >= 3}

KeyOf(k) == <<weak_segments[k].Feature1, weak_segments[k].Feature2>>

C15_PanelsOfWalkedRecords ==
    heat_pc \in {"loop", "done"} =>
        /\ Len(partitions) = idx + 1
        /\ idx + 1 <= Len(weak_segments)
        /\ Len(display_tabs) <= Min(n_to_show, Len(weak_segments))
        /\ Len(display_tabs) = Cardinality(Panelled)
        /\ \A q \in 1..Len(display_tabs) :
             /\ \E k \in Panelled : display_tabs[q] = KeyOf(k)
             /\ \A p \in 1..Len(display_tabs) : p # q => display_tabs[p] # display_tabs[q]
        /\ \A k \in 1..Len(partitions) : Cardinality({p \in Panelled : p < k}) < n_to_show
        /\ heat_pc = "done" => (Len(display_tabs) = n_to_show \/ idx + 1 = Len(weak_segments))

\* C15: _create_heatmap_display walks the records worst-first and always
\* terminates: each pass takes the next record, it stops as soon as
\* n_to_show panels exist or the records are exhausted, a panel is built
\* only for a record whose two features have at least 3 boundaries each, so
\* there are at most min(n_to_show, number of records) panels, each of a
\* distinct feature pair.
C15_HeatmapLoopTerminates ==
    /\ []C15_PanelsOfWalkedRecords
    /\ [][/\ idx' # idx => (idx' = idx + 1 /\ idx' < Len(weak_segments)
                           /\ Len(display_tabs) < n_to_show)
          /\ heat_pc = "done" => heat_pc' = "done"]_vars
    /\ <>(heat_pc = "done")

\* a record without enough boundaries was skipped, the next ones were tried,
\* and the walk ended with n_to_show panels before the last record
C15_Witness ==
    /\ heat_pc = "done"
    /\ n_to_show = 1
    /\ Len(display_tabs) = 1
    /\ Len(partitions) = 2
    /\ Len(weak_segments) = 3
    /\ 1 \notin Panelled

\* samples counted in the cell (a, b) of the grid built last
CellRows(a, b) ==
    SegmentData(grid.Feature1, grid.segments_f1, a, grid.Feature2, grid.segments_f2, b,
                n_samples)
Cells == {c \in (1..(Len(grid.segments_f1) - 1)) \X (1..(Len(grid.segments_f2) - 1)) : TRUE}

\* the sum of the counts of the grid built last
TotalCount ==
    Cardinality({t \in Cells \X (1..n_samples) : t[2] <= grid.cells[t[1][1]][t[1][2]].count})

\* a cell without samples has a not-a-number score and count 0, and the
\* scorer did not run on it
EmptyCellsNotScored ==
    grid # <<>> =>
        \A c \in Cells :
            /\ grid.cells[c[1]][c[2]].count = Cardinality(CellRows(c[1], c[2]))
            /\ CellRows(c[1], c[2]) = {} =>
                 /\ grid.cells[c[1]][c[2]].score = NaN
                 /\ grid.cells[c[1]][c[2]].count = 0
                 /\ ~ grid.cells[c[1]][c[2]].scored
            /\ CellRows(c[1], c[2]) # {} => grid.cells[c[1]][c[2]].scored

\* C16: in the grid every sample is counted in at most one cell, so the
\* counts of the cells sum to at most the number of samples; a cell without
\* samples has a not-a-number score and count 0 and the scorer is not called.
C16_SampleInAtMostOneCell ==
    grid # <<>> =>
        /\ \A r \in 1..n_samples : Cardinality({c \in Cells : r \in CellRows(c[1], c[2])}) <= 1
        /\ TotalCount <= n_samples
        /\ EmptyCellsNotScored

\* the same, leaving out the samples that lie on a boundary inside the grid
C16_SamplesOffTheBoundaries ==
    grid # <<>> =>
        /\ \A r \in 1..n_samples :
             (/\ \A k \in 2..(Len(grid.segments_f1) - 1) :
                   HeatData[r][grid.Feature1] # grid.segments_f1[k]
              /\ \A k \in 2..(Len(grid.segments_f2) - 1) :
                   HeatData[r][grid.Feature2] # grid.segments_f2[k])
                => Cardinality({c \in Cells : r \in CellRows(c[1], c[2])}) <= 1
        /\ EmptyCellsNotScored

====
